---- MODULE Spec2Model ----
(***************************************************************************)
(* AceInterview: the interview page components as state machines.         *)
(*                                                                         *)
(*   page = "single"  the single-question page,                            *)
(*                    src/src/components/interview-page.tsx (1st component) *)
(*   page = "multi"   the multi-round page, src/unnamed/part_000           *)
(*   page = "oldest"  the oldest revision of the single-question page,     *)
(*                    src/src/components/interview-page.tsx (2nd component) *)
(*                                                                         *)
(* One action is one event-loop task: a click/submit/change handler, the   *)
(* continuation of an awaited AI call, a timer callback or a recognizer    *)
(* event, together with the re-render and the effect cleanups it causes.   *)
(* Text is a sequence of one-character strings.  Optional values are       *)
(* sequences of length at most one (Null, or <<v>>).                       *)
(***************************************************************************)
EXTENDS Integers, Sequences, FiniteSets, TLC

\* ---------------------------------------------------------------- bounds
MaxTime == 1
MaxFinals == 2
MaxCalls == 3
MaxRecognizers == 1
MaxAnswerLen == 2
MaxOldestCalls == 2

\* ------------------------------------------------------ program constants
MinLen == 2
MaxLen == 50
OTHER_VALUE == "other"

\* ------------------------------------------------------------ input sets
Pages == {"single", "multi"}
Questions == {"q1", "q2"}
TypedTexts == {<<>>, <<" ">>, <<"a">>}
Transcripts == {<<"x">>, <<"y">>}
Interims == {<<>>, <<"z">>}
FieldLens == {0, MinLen - 1, MinLen, MaxLen, MaxLen + 1}
\* The single page's form values: one field at a bound of the schema, the
\* other of any length.
FieldValues ==
    {[role |-> r, industry |-> MinLen] : r \in FieldLens}
    \cup {[role |-> MaxLen, industry |-> i] : i \in FieldLens}
ErrorCodes == {"no-speech", "audio-capture"}

Null == <<>>
Some(v) == <<v>>

\* ---------------------------------------------------------- text helpers
SPACE == " "

RECURSIVE TrimStart(_)
TrimStart(s) ==
    IF s # <<>> /\ Head(s) = SPACE THEN TrimStart(Tail(s)) ELSE s

RECURSIVE TrimEnd(_)
TrimEnd(s) ==
    IF s # <<>> /\ s[Len(s)] = SPACE THEN TrimEnd(SubSeq(s, 1, Len(s) - 1)) ELSE s

Trim(s) == TrimEnd(TrimStart(s))

EndsWithSpace(s) == s # <<>> /\ s[Len(s)] = SPACE
StartsWithSpace(s) == s # <<>> /\ Head(s) = SPACE

\* ------------------------------------------------------------- the state
VARIABLES
    page,                    \* which page component is mounted
    currentStep,
    generatedQuestion,       \* Null or <<question text>>
    currentQuestionParams,   \* multi: Null or <<[role, industry, interviewFocus]>>
    answer,
    feedback,                \* Null or <<feedback data>>
    isLoadingQuestion,
    isLoadingFeedback,
    interviewRounds,         \* multi: sequence of [question, answer]
    elapsedTime,
    isStopwatchRunning,
    stopwatchIntervalRef,    \* "null", "active", or "cleared" (id kept, timer gone)
    isRecording,
    textBeforeRecordingRef,
    currentSpokenTextRef,
    speechRecognitionRef,    \* the recognizer: [supported, state, results, handlers];
                             \* oldest: [current, started], see NewRecognizer
    formValues,              \* single: lengths of the role and industry fields
    formErrors,              \* fields the resolver rejected at the last submit
    calls,                   \* AI calls in flight, in the order they were made
    timers,                  \* pending setTimeout callbacks (their closures)
    requests,                \* how many AI requests the user has started so far
    session,                 \* history of the recording session under way
    toast                    \* the toast the last task raised, "none" if none

vars == <<page, currentStep, generatedQuestion, currentQuestionParams, answer,
          feedback, isLoadingQuestion, isLoadingFeedback, interviewRounds,
          elapsedTime, isStopwatchRunning, stopwatchIntervalRef, isRecording,
          textBeforeRecordingRef, currentSpokenTextRef, speechRecognitionRef,
          formValues, formErrors, calls, timers, requests, session, toast>>

stopwatchVars == <<elapsedTime, isStopwatchRunning, stopwatchIntervalRef>>
transcriptRefs == <<textBeforeRecordingRef, currentSpokenTextRef>>
formVars == <<formValues, formErrors>>

\* isRecording as seen by onerror/onend: the handlers are created once, by the
\* mount effect (deps [toast], guarded by !speechRecognitionRef.current), so
\* they close over the first render's isRecording, the useState default.
capturedIsRecording == FALSE

\* History of a recording session: the answer when toggleRecording started it,
\* the transcripts finalized since, and the interim transcript of the last
\* result event.  It ends with onend, or when a handler resets the transcript
\* refs (a new question, Start Over).
NoSession == [live |-> FALSE, startAnswer |-> <<>>, finals |-> <<>>, interim |-> <<>>]

DefaultFormValues == [role |-> 0, industry |-> 0]

Init ==
    /\ page \in Pages
    /\ currentStep = "initial"
    /\ generatedQuestion = Null
    /\ currentQuestionParams = Null
    /\ answer = <<>>
    /\ feedback = Null
    /\ isLoadingQuestion = FALSE
    /\ isLoadingFeedback = FALSE
    /\ interviewRounds = <<>>
    /\ elapsedTime = 0
    /\ isStopwatchRunning = FALSE
    /\ stopwatchIntervalRef = "null"
    /\ isRecording = FALSE
    /\ textBeforeRecordingRef = <<>>
    /\ currentSpokenTextRef = <<>>
    /\ \E supported \in BOOLEAN :
          speechRecognitionRef = [supported |-> supported, state |-> "idle",
                                  results |-> <<>>, handlers |-> supported]
    /\ formValues = DefaultFormValues
    /\ formErrors = {}
    /\ calls = <<>>
    /\ timers = <<>>
    /\ requests = 0
    /\ session = NoSession
    /\ toast = "none"

\* --------------------------------------------------------- the recognizer
\* SpeechRecognition.stop(): a listening recognizer stops capturing; it may
\* still deliver one result and then fires onend.  Otherwise nothing happens.
\* (results keeps the list only as far as a later event can refer to it.)
RecStop(rec) ==
    IF rec.state = "listening"
    THEN [rec EXCEPT !.state = "stopping", !.results = <<>>] ELSE rec

\* SpeechRecognition.start() throws InvalidStateError unless the recognizer is idle.
StartThrows(rec) == rec.state # "idle"

RecStart(rec) == [rec EXCEPT !.state = "listening", !.results = <<>>]

\* ----------------------------------------------------------- the stopwatch
\* startStopwatch: the ref after the call (any previous interval is cleared)
startStopwatch_ref == "active"

\* stopStopwatch: the ref after the call
stopStopwatch_ref == "null"

\* The cleanup of the single page's effect with deps [isRecording] runs at
\* every change of isRecording: it clears the interval without resetting
\* the ref, and detaches the recognizer's handlers.
CleanupInterval(ref) == IF ref = "active" THEN "cleared" ELSE ref

Tick ==
    /\ stopwatchIntervalRef = "active"
    /\ elapsedTime < MaxTime
    /\ elapsedTime' = elapsedTime + 1
    /\ UNCHANGED <<page, currentStep, generatedQuestion, currentQuestionParams,
                   answer, feedback, isLoadingQuestion, isLoadingFeedback,
                   interviewRounds, isStopwatchRunning, stopwatchIntervalRef,
                   isRecording, transcriptRefs, speechRecognitionRef, formVars,
                   calls, timers>>
    /\ toast' = "none"
    /\ UNCHANGED requests
    /\ UNCHANGED session

\* ------------------------------------------------------------- AI calls
RemoveAt(seq, i) == SubSeq(seq, 1, i - 1) \o SubSeq(seq, i + 1, Len(seq))

CallsOfKind(k) == {i \in 1..Len(calls) : calls[i].kind = k}

\* The questions the flow may return: the first question of an interview is
\* q1, a later one repeats a question or is a new one.
QuestionsNow == IF interviewRounds = <<>> THEN {"q1"} ELSE Questions

\* await generateInterviewQuestion(...) resolves: the rest of the try block
\* and the finally block of handleGenerateQuestion / fetchNewQuestion.
generateInterviewQuestion_resolves(i, questionData) ==
    /\ i \in CallsOfKind("question")
    /\ generatedQuestion' = Some(questionData)
    /\ currentStep' = "question_generated"
    /\ elapsedTime' = 0
    /\ isStopwatchRunning' = TRUE
    /\ stopwatchIntervalRef' = startStopwatch_ref
    /\ isLoadingQuestion' = FALSE
    /\ calls' = RemoveAt(calls, i)
    /\ UNCHANGED <<page, currentQuestionParams, answer, feedback, isLoadingFeedback,
                   interviewRounds, isRecording, transcriptRefs,
                   speechRecognitionRef, formVars, timers>>
    /\ toast' = "none"
    /\ UNCHANGED requests
    /\ UNCHANGED session

\* A catch block that also sends the page back to the form.
generateInterviewQuestion_rejects_resetsStep(i) ==
    /\ i \in CallsOfKind("question")
    /\ toast' = "Error: question"
    /\ isLoadingQuestion' = FALSE
    /\ currentStep' = "initial"
    /\ calls' = RemoveAt(calls, i)
    /\ UNCHANGED <<page, generatedQuestion, currentQuestionParams,
                   answer, feedback, isLoadingFeedback, interviewRounds,
                   stopwatchVars, isRecording, transcriptRefs,
                   speechRecognitionRef, formVars, timers>>
    /\ UNCHANGED requests
    /\ UNCHANGED session

\* await generateInterviewQuestion(...) rejects: catch and finally.
generateInterviewQuestion_rejects(i) ==
    /\ i \in CallsOfKind("question")
    /\ toast' = "Error: question"
    /\ isLoadingQuestion' = FALSE
    /\ calls' = RemoveAt(calls, i)
    /\ UNCHANGED <<page, currentStep, generatedQuestion, currentQuestionParams,
                   answer, feedback, isLoadingFeedback, interviewRounds,
                   stopwatchVars, isRecording, transcriptRefs,
                   speechRecognitionRef, formVars, timers>>
    /\ UNCHANGED requests
    /\ UNCHANGED session

\* The step a feedback call's continuation moves the page to.
FeedbackStep == IF page = "multi" THEN "overall_feedback_generated"
                ELSE "feedback_generated"

\* What the awaited feedback flow returns: the model's feedback, whose text
\* the page only renders; the multi page's feedback is tagged with the
\* number of rounds of the request it answers.
FeedbackData(payload) ==
    IF page = "multi"
    THEN [overallFeedback |-> "fb", roundsSent |-> Len(payload.interviewRounds)]
    ELSE [overallFeedback |-> "fb"]

\* await generateAnswerFeedback(...) / generateOverallInterviewFeedback(...)
\* resolves: setFeedback, setCurrentStep, finally.
generateFeedback_resolves(i) ==
    /\ i \in CallsOfKind("feedback")
    /\ feedback' = Some(FeedbackData(calls[i].payload))
    /\ currentStep' = FeedbackStep
    /\ isLoadingFeedback' = FALSE
    /\ calls' = RemoveAt(calls, i)
    /\ UNCHANGED <<page, generatedQuestion, currentQuestionParams, answer,
                   isLoadingQuestion, interviewRounds, stopwatchVars, isRecording,
                   transcriptRefs, speechRecognitionRef, formVars, timers>>
    /\ toast' = "none"
    /\ UNCHANGED requests
    /\ UNCHANGED session

\* A catch block that also clears the answer.
generateFeedback_rejects_clearsAnswer(i) ==
    /\ i \in CallsOfKind("feedback")
    /\ toast' = "Error: feedback"
    /\ isLoadingFeedback' = FALSE
    /\ answer' = <<>>
    /\ calls' = RemoveAt(calls, i)
    /\ UNCHANGED <<page, currentStep, generatedQuestion, currentQuestionParams,
                   feedback, isLoadingQuestion, interviewRounds,
                   stopwatchVars, isRecording, transcriptRefs,
                   speechRecognitionRef, formVars, timers>>
    /\ UNCHANGED requests
    /\ UNCHANGED session

\* ... rejects: catch and finally.
generateFeedback_rejects(i) ==
    /\ i \in CallsOfKind("feedback")
    /\ toast' = "Error: feedback"
    /\ isLoadingFeedback' = FALSE
    /\ calls' = RemoveAt(calls, i)
    /\ UNCHANGED <<page, currentStep, generatedQuestion, currentQuestionParams,
                   answer, feedback, isLoadingQuestion, interviewRounds,
                   stopwatchVars, isRecording, transcriptRefs,
                   speechRecognitionRef, formVars, timers>>
    /\ UNCHANGED requests
    /\ UNCHANGED session

\* --------------------------------------------------- what the page renders
\* <Button type="submit" disabled={isLoadingQuestion}>
SubmitDisabled == isLoadingQuestion

\* A Get Feedback button that is not disabled while feedback is loading.
GetFeedbackDisabled_notGated == Trim(answer) = <<>>

\* Get Feedback: disabled={isLoadingFeedback || answer.trim() === ""}
GetFeedbackDisabled == isLoadingFeedback \/ Trim(answer) = <<>>

\* Next Question: disabled={isLoadingQuestion || isLoadingFeedback || isRecording}
NextQuestionDisabled == isLoadingQuestion \/ isLoadingFeedback \/ isRecording

\* End Interview & Get Feedback:
\* disabled={isLoadingFeedback || isRecording || isLoadingQuestion}
EndInterviewDisabled == isLoadingFeedback \/ isRecording \/ isLoadingQuestion

\* Record with Voice (multi page): disabled={isLoadingQuestion || isLoadingFeedback}
RecordDisabled == page = "multi" /\ (isLoadingQuestion \/ isLoadingFeedback)

\* The Start Over button of the header is rendered.
StartOverShown == currentStep # "initial"

\* ------------------------------------------------------ single-question page
\* A schema without the .max(50) rules.
roleIndustrySchema_noMax(values) ==
    {f \in {"role", "industry"} : values[f] < MinLen}

\* zod: the fields whose length is outside [2, 50]
roleIndustrySchema(values) ==
    {f \in {"role", "industry"} : values[f] < MinLen \/ values[f] > MaxLen}

\* The user edits the form (rendered while currentStep is initial).
FormInput(values) ==
    /\ page = "single"
    /\ currentStep = "initial"
    /\ formValues' = values
    /\ UNCHANGED <<page, currentStep, generatedQuestion, currentQuestionParams,
                   answer, feedback, isLoadingQuestion, isLoadingFeedback,
                   interviewRounds, stopwatchVars, isRecording, transcriptRefs,
                   speechRecognitionRef, formErrors, calls, timers>>
    /\ toast' = "none"
    /\ UNCHANGED requests
    /\ UNCHANGED session

\* form.handleSubmit(handleGenerateQuestion): the resolver validates the
\* values; handleGenerateQuestion runs up to its await only if they pass.
handleGenerateQuestion ==
    /\ requests < MaxCalls
    /\ page = "single"
    /\ currentStep = "initial"
    /\ ~SubmitDisabled
    /\ formErrors' = roleIndustrySchema(formValues)
    /\ IF roleIndustrySchema(formValues) # {}
       THEN UNCHANGED <<isLoadingQuestion, generatedQuestion, feedback, answer,
                        transcriptRefs, speechRecognitionRef, calls>>
       ELSE /\ isLoadingQuestion' = TRUE
            /\ generatedQuestion' = Null
            /\ feedback' = Null
            /\ answer' = <<>>
            /\ textBeforeRecordingRef' = <<>>
            /\ currentSpokenTextRef' = <<>>
            /\ speechRecognitionRef' =
                  IF isRecording /\ speechRecognitionRef.supported
                  THEN RecStop(speechRecognitionRef) ELSE speechRecognitionRef
            /\ calls' = Append(calls, [kind |-> "question", payload |-> formValues,
                                       step |-> currentStep])
    /\ UNCHANGED <<page, currentStep, currentQuestionParams, isLoadingFeedback,
                   interviewRounds, stopwatchVars, isRecording, formValues,
                   timers>>
    /\ toast' = "none"
    /\ requests' = IF roleIndustrySchema(formValues) # {} THEN requests ELSE requests + 1
    /\ session' = IF roleIndustrySchema(formValues) # {} THEN session ELSE NoSession

\* Get Feedback (single page), up to the await.
handleGetFeedback ==
    /\ requests < MaxCalls
    /\ page = "single"
    /\ currentStep = "question_generated"
    /\ generatedQuestion # Null
    /\ ~GetFeedbackDisabled
    /\ IF formValues.role = 0 \/ formValues.industry = 0
       THEN UNCHANGED <<isLoadingFeedback, feedback, isStopwatchRunning,
                        stopwatchIntervalRef, speechRecognitionRef, calls>>
       ELSE /\ isLoadingFeedback' = TRUE
            /\ feedback' = Null
            /\ stopwatchIntervalRef' = stopStopwatch_ref
            /\ isStopwatchRunning' = FALSE
            /\ speechRecognitionRef' =
                  IF isRecording /\ speechRecognitionRef.supported
                  THEN RecStop(speechRecognitionRef) ELSE speechRecognitionRef
            /\ calls' = Append(calls,
                  [kind |-> "feedback",
                   payload |-> [question |-> generatedQuestion[1], answer |-> answer,
                                role |-> formValues.role,
                                industry |-> formValues.industry],
                   step |-> currentStep])
    /\ UNCHANGED <<page, currentStep, generatedQuestion, currentQuestionParams,
                   answer, isLoadingQuestion, interviewRounds, elapsedTime,
                   isRecording, transcriptRefs, formVars, timers>>
    /\ toast' = "none"
    /\ requests' = IF formValues.role = 0 \/ formValues.industry = 0 THEN requests ELSE requests + 1
    /\ UNCHANGED session

\* Start Over / Practice Again (single page).
handleStartOver_single ==
    /\ page = "single"
    /\ StartOverShown
    /\ formValues' = DefaultFormValues
    /\ formErrors' = {}
    /\ generatedQuestion' = Null
    /\ answer' = <<>>
    /\ feedback' = Null
    /\ currentStep' = "initial"
    /\ elapsedTime' = 0
    /\ stopwatchIntervalRef' = stopStopwatch_ref
    /\ isStopwatchRunning' = FALSE
    /\ textBeforeRecordingRef' = <<>>
    /\ currentSpokenTextRef' = <<>>
    /\ speechRecognitionRef' =
          IF isRecording /\ speechRecognitionRef.supported
          THEN RecStop(speechRecognitionRef) ELSE speechRecognitionRef
    /\ UNCHANGED <<page, currentQuestionParams, isLoadingQuestion,
                   isLoadingFeedback, interviewRounds, isRecording, calls,
                   timers>>
    /\ toast' = "none"
    /\ UNCHANGED requests
    /\ session' = NoSession

\* ----------------------------------------------------- answering a question
\* The answer card is rendered (textarea, Record with Voice).
AnswerCardShown ==
    /\ currentStep = "question_generated"
    /\ page = "single" => generatedQuestion # Null

\* The textarea's onChange.
Textarea_onChange(text) ==
    /\ AnswerCardShown
    /\ ~isRecording
    /\ page = "multi" => ~isLoadingQuestion
    /\ answer' = text
    /\ textBeforeRecordingRef' =
          IF page = "single" THEN text ELSE textBeforeRecordingRef
    /\ UNCHANGED <<page, currentStep, generatedQuestion, currentQuestionParams,
                   feedback, isLoadingQuestion, isLoadingFeedback, interviewRounds,
                   stopwatchVars, isRecording, currentSpokenTextRef,
                   speechRecognitionRef, formVars, calls, timers>>
    /\ toast' = "none"
    /\ UNCHANGED requests
    /\ UNCHANGED session

\* A toggleRecording that starts the stopwatch before it calls start().
toggleRecording_stopwatchFirst ==
    /\ AnswerCardShown
    /\ ~RecordDisabled
    /\ IF ~speechRecognitionRef.supported
       THEN /\ toast' = "Unsupported Feature"
            /\ UNCHANGED <<speechRecognitionRef, isRecording, transcriptRefs,
                           stopwatchVars>>
       ELSE IF isRecording
       THEN /\ speechRecognitionRef' = RecStop(speechRecognitionRef)
            /\ toast' = "none"
            /\ UNCHANGED <<isRecording, transcriptRefs, stopwatchVars>>
       ELSE /\ textBeforeRecordingRef' = answer
            /\ currentSpokenTextRef' = <<>>
            /\ IF StartThrows(speechRecognitionRef)
               THEN /\ toast' = "Speech Recognition Error"
                    /\ isRecording' = FALSE
                    /\ elapsedTime' = 0
                    /\ isStopwatchRunning' = TRUE
                    /\ stopwatchIntervalRef' = startStopwatch_ref
                    /\ UNCHANGED speechRecognitionRef
               ELSE LET start == ~isStopwatchRunning /\ currentStep = "question_generated"
                        ref == IF start THEN startStopwatch_ref ELSE stopwatchIntervalRef
                    IN  /\ isRecording' = TRUE
                        /\ elapsedTime' = IF start THEN 0 ELSE elapsedTime
                        /\ isStopwatchRunning' = (start \/ isStopwatchRunning)
                        /\ stopwatchIntervalRef' =
                              IF page = "single" THEN CleanupInterval(ref) ELSE ref
                        /\ speechRecognitionRef' =
                              [RecStart(speechRecognitionRef) EXCEPT
                                 !.handlers = IF page = "single" THEN FALSE ELSE @]
                        /\ toast' = "none"
    /\ UNCHANGED <<page, currentStep, generatedQuestion, currentQuestionParams,
                   answer, feedback, isLoadingQuestion, isLoadingFeedback,
                   interviewRounds, formVars, calls, timers>>
    /\ UNCHANGED requests
    /\ session' = IF speechRecognitionRef.supported /\ ~isRecording
                      /\ ~StartThrows(speechRecognitionRef)
                   THEN [live |-> TRUE, startAnswer |-> answer,
                         finals |-> <<>>, interim |-> <<>>]
                   ELSE session

\* Record with Voice / Stop Recording.  In the single page the change of
\* isRecording runs the cleanup of the effect with deps [isRecording].
toggleRecording ==
    /\ AnswerCardShown
    /\ ~RecordDisabled
    /\ IF ~speechRecognitionRef.supported
       THEN /\ toast' = "Unsupported Feature"
            /\ UNCHANGED <<speechRecognitionRef, isRecording, transcriptRefs,
                           stopwatchVars>>
       ELSE IF isRecording
       THEN /\ speechRecognitionRef' = RecStop(speechRecognitionRef)
            /\ toast' = "none"
            /\ UNCHANGED <<isRecording, transcriptRefs, stopwatchVars>>
       ELSE /\ textBeforeRecordingRef' = answer
            /\ currentSpokenTextRef' = <<>>
            /\ IF StartThrows(speechRecognitionRef)
               THEN /\ toast' = "Speech Recognition Error"
                    /\ isRecording' = FALSE
                    /\ UNCHANGED <<speechRecognitionRef, stopwatchVars>>
               ELSE LET start == ~isStopwatchRunning /\ currentStep = "question_generated"
                        ref == IF start THEN startStopwatch_ref ELSE stopwatchIntervalRef
                    IN  /\ isRecording' = TRUE
                        /\ elapsedTime' = IF start THEN 0 ELSE elapsedTime
                        /\ isStopwatchRunning' = (start \/ isStopwatchRunning)
                        /\ stopwatchIntervalRef' =
                              IF page = "single" THEN CleanupInterval(ref) ELSE ref
                        /\ speechRecognitionRef' =
                              [RecStart(speechRecognitionRef) EXCEPT
                                 !.handlers = IF page = "single" THEN FALSE ELSE @]
                        /\ toast' = "none"
    /\ UNCHANGED <<page, currentStep, generatedQuestion, currentQuestionParams,
                   answer, feedback, isLoadingQuestion, isLoadingFeedback,
                   interviewRounds, formVars, calls, timers>>
    /\ UNCHANGED requests
    /\ session' = IF speechRecognitionRef.supported /\ ~isRecording
                      /\ ~StartThrows(speechRecognitionRef)
                   THEN [live |-> TRUE, startAnswer |-> answer,
                         finals |-> <<>>, interim |-> <<>>]
                   ELSE session

\* ------------------------------------------------------------ multi-round page
CustomTexts == {<<>>, <<" ">>, <<"a">>, <<"a", "b">>}
CustomRoles == {<<>>, <<"a">>}
RoleSelections == {"", "Software Engineer", OTHER_VALUE}
IndustrySelections == {"", "Technology"}
FocusSelections == {<<>>, <<"Technical Skills & Experience">>, <<OTHER_VALUE>>,
                    <<"Technical Skills & Experience", OTHER_VALUE>>,
                    <<OTHER_VALUE, "Technical Skills & Experience">>}

\* A form filled with predefined choices only.
BaseForm ==
    [roleSelection |-> "Software Engineer", customRole |-> <<>>,
     industrySelection |-> "Technology", customIndustry |-> <<>>,
     focusSelections |-> <<"Technical Skills & Experience">>, customFocus |-> <<>>]

\* The values the multi page's form is submitted with: BaseForm with the
\* role, the industry or the focus part changed.
FormInputs ==
    {[BaseForm EXCEPT !.roleSelection = r, !.customRole = c] :
        r \in RoleSelections, c \in CustomRoles}
    \cup {[BaseForm EXCEPT !.industrySelection = i] : i \in IndustrySelections}
    \cup {[BaseForm EXCEPT !.focusSelections = f, !.customFocus = c] :
        f \in {g \in FocusSelections : Len(g) < 2}, c \in CustomTexts}
    \cup {[BaseForm EXCEPT !.focusSelections = f, !.customFocus = c] :
        f \in FocusSelections, c \in CustomTexts \ {<<"a", "b">>}}

Includes(seq, v) == \E i \in 1..Len(seq) : seq[i] = v

\* A schema whose superRefine has no rule for the custom focus.
formSchema_noFocusRule(data) ==
    LET short(t) == Len(Trim(t)) < MinLen
    IN  {f \in {"roleSelection"} : data.roleSelection = ""}
        \cup {f \in {"industrySelection"} : data.industrySelection = ""}
        \cup {f \in {"focusSelections"} : Len(data.focusSelections) < 1}
        \cup {f \in {"customRole"} :
                 data.roleSelection = OTHER_VALUE /\ short(data.customRole)}
        \cup {f \in {"customIndustry"} :
                 data.industrySelection = OTHER_VALUE /\ short(data.customIndustry)}

\* zod: the paths of the issues formSchema raises for the data
formSchema(data) ==
    LET short(t) == Len(Trim(t)) < MinLen
        otherFocus == Includes(data.focusSelections, OTHER_VALUE)
    IN  {f \in {"roleSelection"} : data.roleSelection = ""}
        \cup {f \in {"industrySelection"} : data.industrySelection = ""}
        \cup {f \in {"focusSelections"} : Len(data.focusSelections) < 1}
        \cup {f \in {"customRole"} :
                 data.roleSelection = OTHER_VALUE /\ short(data.customRole)}
        \cup {f \in {"customIndustry"} :
                 data.industrySelection = OTHER_VALUE /\ short(data.customIndustry)}
        \cup {f \in {"customFocus"} :
                 /\ otherFocus
                 /\ short(data.customFocus)
                 /\ \/ Len(data.focusSelections) = 1
                    \/ Len(Trim(data.customFocus)) > 0}

\* The text of a predefined choice (its label, kept as one unit).
Label(choice) == <<choice>>

\* handleGenerateFirstQuestion: actualFocuses
ActualFocuses(values) ==
    LET predefined == SelectSeq(values.focusSelections, LAMBDA f : f # OTHER_VALUE)
    IN  [k \in 1..Len(predefined) |-> Label(predefined[k])]
    \o (IF Includes(values.focusSelections, OTHER_VALUE)
           /\ Len(Trim(values.customFocus)) > 0
        THEN <<Trim(values.customFocus)>> ELSE <<>>)

QuestionPayload(values) ==
    [role |-> IF values.roleSelection = OTHER_VALUE
              THEN values.customRole ELSE Label(values.roleSelection),
     industry |-> IF values.industrySelection = OTHER_VALUE
                  THEN values.customIndustry ELSE Label(values.industrySelection),
     interviewFocus |-> ActualFocuses(values)]

\* form.handleSubmit(handleGenerateFirstQuestion), up to the await inside
\* fetchNewQuestion.
handleGenerateFirstQuestion(values) ==
    /\ requests < MaxCalls
    /\ page = "multi"
    /\ currentStep = "initial"
    /\ ~SubmitDisabled
    /\ formErrors' = formSchema(values)
    /\ IF formSchema(values) # {}
       THEN /\ UNCHANGED <<isLoadingQuestion, generatedQuestion, feedback, answer,
                        transcriptRefs, interviewRounds, speechRecognitionRef,
                        isRecording, currentQuestionParams, calls>>
            /\ toast' = "none"
       ELSE /\ generatedQuestion' = Null
            /\ feedback' = Null
            /\ answer' = <<>>
            /\ textBeforeRecordingRef' = <<>>
            /\ currentSpokenTextRef' = <<>>
            /\ interviewRounds' = <<>>
            /\ speechRecognitionRef' =
                  IF isRecording /\ speechRecognitionRef.supported
                  THEN RecStop(speechRecognitionRef) ELSE speechRecognitionRef
            /\ isRecording' =
                  IF isRecording /\ speechRecognitionRef.supported
                  THEN FALSE ELSE isRecording
            /\ IF ActualFocuses(values) = <<>>
               THEN /\ toast' = "Focus Error"
                    /\ isLoadingQuestion' = FALSE
                    /\ UNCHANGED <<currentQuestionParams, calls>>
               ELSE /\ currentQuestionParams' = Some(QuestionPayload(values))
                    /\ isLoadingQuestion' = TRUE
                    /\ calls' = Append(calls, [kind |-> "question",
                                               payload |-> QuestionPayload(values),
                                               step |-> currentStep])
                    /\ toast' = "none"
    /\ UNCHANGED <<page, currentStep, isLoadingFeedback, stopwatchVars,
                   formValues, timers>>
    /\ requests' = IF formSchema(values) # {} \/ ActualFocuses(values) = <<>> THEN requests ELSE requests + 1
    /\ session' = IF formSchema(values) # {} THEN session ELSE NoSession

\* processAndStoreCurrentRound: interviewRounds after the call
processAndStoreCurrentRound ==
    IF generatedQuestion # Null /\ Len(Trim(answer)) > 0
    THEN Append(interviewRounds, [question |-> generatedQuestion[1], answer |-> answer])
    ELSE IF /\ generatedQuestion # Null
            /\ Len(Trim(answer)) = 0
            /\ \A r \in 1..Len(interviewRounds) :
                  interviewRounds[r].question # generatedQuestion[1]
    THEN Append(interviewRounds, [question |-> generatedQuestion[1], answer |-> <<>>])
    ELSE interviewRounds

\* Next Question: processAndStoreCurrentRound, then fetchNewQuestion up to
\* its await.
handleNextQuestion ==
    /\ requests < MaxCalls
    /\ page = "multi"
    /\ currentStep = "question_generated"
    /\ ~NextQuestionDisabled
    /\ IF currentQuestionParams = Null
       THEN UNCHANGED <<interviewRounds, isLoadingQuestion, generatedQuestion,
                        answer, transcriptRefs, speechRecognitionRef, isRecording,
                        calls>>
       ELSE /\ interviewRounds' = processAndStoreCurrentRound
            /\ isLoadingQuestion' = TRUE
            /\ generatedQuestion' = Null
            /\ answer' = <<>>
            /\ textBeforeRecordingRef' = <<>>
            /\ currentSpokenTextRef' = <<>>
            /\ speechRecognitionRef' =
                  IF isRecording /\ speechRecognitionRef.supported
                  THEN RecStop(speechRecognitionRef) ELSE speechRecognitionRef
            /\ isRecording' =
                  IF isRecording /\ speechRecognitionRef.supported
                  THEN FALSE ELSE isRecording
            /\ calls' = Append(calls, [kind |-> "question",
                                       payload |-> currentQuestionParams[1],
                                       step |-> currentStep])
    /\ UNCHANGED <<page, currentStep, currentQuestionParams, feedback,
                   isLoadingFeedback, stopwatchVars, formVars, timers>>
    /\ toast' = "none"
    /\ requests' = IF currentQuestionParams = Null THEN requests ELSE requests + 1
    /\ session' = IF currentQuestionParams = Null THEN session ELSE NoSession

\* findIndex: the first round with the question text, 0 if there is none
FindRound(rounds, q) ==
    IF \E r \in 1..Len(rounds) : rounds[r].question = q
    THEN CHOOSE r \in 1..Len(rounds) :
            /\ rounds[r].question = q
            /\ \A k \in 1..(r - 1) : rounds[k].question # q
    ELSE 0

\* handleEndInterviewAndGetFeedback: interviewRounds after the capture of
\* the last answer
CaptureLastAnswer ==
    IF generatedQuestion = Null THEN interviewRounds
    ELSE LET idx == FindRound(interviewRounds, generatedQuestion[1])
         IN  IF idx # 0
             THEN [interviewRounds EXCEPT ![idx].answer = answer]
             ELSE Append(interviewRounds,
                         [question |-> generatedQuestion[1], answer |-> answer])

\* End Interview & Get Feedback, up to setTimeout.  The callback closes over
\* this render's interviewRounds, generatedQuestion, answer and
\* currentQuestionParams.
handleEndInterviewAndGetFeedback ==
    /\ requests < MaxCalls
    /\ page = "multi"
    /\ currentStep = "question_generated"
    /\ ~EndInterviewDisabled
    /\ IF currentQuestionParams = Null
       THEN UNCHANGED <<interviewRounds, isLoadingFeedback, feedback,
                        isStopwatchRunning, stopwatchIntervalRef,
                        speechRecognitionRef, isRecording, timers>>
       ELSE /\ interviewRounds' = CaptureLastAnswer
            /\ isLoadingFeedback' = TRUE
            /\ feedback' = Null
            /\ stopwatchIntervalRef' = stopStopwatch_ref
            /\ isStopwatchRunning' = FALSE
            /\ speechRecognitionRef' =
                  IF isRecording /\ speechRecognitionRef.supported
                  THEN RecStop(speechRecognitionRef) ELSE speechRecognitionRef
            /\ isRecording' =
                  IF isRecording /\ speechRecognitionRef.supported
                  THEN FALSE ELSE isRecording
            /\ timers' = Append(timers,
                  [interviewRounds |-> interviewRounds,
                   generatedQuestion |-> generatedQuestion,
                   answer |-> answer,
                   currentQuestionParams |-> currentQuestionParams[1]])
    /\ UNCHANGED <<page, currentStep, generatedQuestion, currentQuestionParams,
                   answer, isLoadingQuestion, elapsedTime, transcriptRefs,
                   formVars, calls>>
    /\ toast' = "none"
    /\ requests' = IF currentQuestionParams = Null THEN requests ELSE requests + 1
    /\ UNCHANGED session

\* The rounds the delayed callback sends, <<>> when it sends none.
TimerPayloadRounds(t) ==
    IF Len(t.interviewRounds) = 0 /\ t.generatedQuestion # Null
       /\ Len(Trim(t.answer)) > 0
    THEN <<[questionText |-> t.generatedQuestion[1], answerText |-> t.answer]>>
    ELSE [r \in 1..Len(t.interviewRounds) |->
             [questionText |-> t.interviewRounds[r].question,
              answerText |-> t.interviewRounds[r].answer]]

\* A callback whose 'No Answers' return leaves isLoadingFeedback set.
EndInterviewTimer_noReset(i) ==
    /\ i \in 1..Len(timers)
    /\ timers' = RemoveAt(timers, i)
    /\ IF TimerPayloadRounds(timers[i]) = <<>>
       THEN /\ toast' = "No Answers"
            /\ UNCHANGED calls
       ELSE /\ calls' = Append(calls,
                  [kind |-> "feedback",
                   payload |-> [role |-> timers[i].currentQuestionParams.role,
                                industry |-> timers[i].currentQuestionParams.industry,
                                interviewRounds |-> TimerPayloadRounds(timers[i])],
                   step |-> currentStep])
            /\ toast' = "none"
    /\ UNCHANGED <<page, currentStep, generatedQuestion, currentQuestionParams,
                   answer, feedback, isLoadingQuestion, isLoadingFeedback,
                   interviewRounds, stopwatchVars, isRecording, transcriptRefs,
                   speechRecognitionRef, formVars>>
    /\ UNCHANGED requests
    /\ UNCHANGED session

\* The setTimeout callback of handleEndInterviewAndGetFeedback, up to its
\* await or its 'No Answers' return.
EndInterviewTimer(i) ==
    /\ i \in 1..Len(timers)
    /\ timers' = RemoveAt(timers, i)
    /\ IF TimerPayloadRounds(timers[i]) = <<>>
       THEN /\ toast' = "No Answers"
            /\ isLoadingFeedback' = FALSE
            /\ UNCHANGED calls
       ELSE /\ calls' = Append(calls,
                  [kind |-> "feedback",
                   payload |-> [role |-> timers[i].currentQuestionParams.role,
                                industry |-> timers[i].currentQuestionParams.industry,
                                interviewRounds |-> TimerPayloadRounds(timers[i])],
                   step |-> currentStep])
            /\ toast' = "none"
            /\ UNCHANGED isLoadingFeedback
    /\ UNCHANGED <<page, currentStep, generatedQuestion, currentQuestionParams,
                   answer, feedback, isLoadingQuestion, interviewRounds,
                   stopwatchVars, isRecording, transcriptRefs,
                   speechRecognitionRef, formVars>>
    /\ UNCHANGED requests
    /\ UNCHANGED session

\* A Start Over that stops the recognizer but leaves isRecording as it is.
handleStartOver_multi_keepsRecording ==
    /\ page = "multi"
    /\ StartOverShown
    /\ formErrors' = {}
    /\ generatedQuestion' = Null
    /\ currentQuestionParams' = Null
    /\ answer' = <<>>
    /\ feedback' = Null
    /\ currentStep' = "initial"
    /\ elapsedTime' = 0
    /\ stopwatchIntervalRef' = stopStopwatch_ref
    /\ isStopwatchRunning' = FALSE
    /\ interviewRounds' = <<>>
    /\ textBeforeRecordingRef' = <<>>
    /\ currentSpokenTextRef' = <<>>
    /\ speechRecognitionRef' =
          IF isRecording /\ speechRecognitionRef.supported
          THEN RecStop(speechRecognitionRef) ELSE speechRecognitionRef
    /\ UNCHANGED <<page, isLoadingQuestion, isLoadingFeedback, formValues, calls,
                   timers, isRecording>>
    /\ toast' = "none"
    /\ UNCHANGED requests
    /\ session' = NoSession

\* Start Over / Practice Again (multi page).
handleStartOver_multi ==
    /\ page = "multi"
    /\ StartOverShown
    /\ formErrors' = {}
    /\ generatedQuestion' = Null
    /\ currentQuestionParams' = Null
    /\ answer' = <<>>
    /\ feedback' = Null
    /\ currentStep' = "initial"
    /\ elapsedTime' = 0
    /\ stopwatchIntervalRef' = stopStopwatch_ref
    /\ isStopwatchRunning' = FALSE
    /\ interviewRounds' = <<>>
    /\ textBeforeRecordingRef' = <<>>
    /\ currentSpokenTextRef' = <<>>
    /\ speechRecognitionRef' =
          IF isRecording /\ speechRecognitionRef.supported
          THEN RecStop(speechRecognitionRef) ELSE speechRecognitionRef
    /\ isRecording' =
          IF isRecording /\ speechRecognitionRef.supported
          THEN FALSE ELSE isRecording
    /\ UNCHANGED <<page, isLoadingQuestion, isLoadingFeedback, formValues, calls,
                   timers>>
    /\ toast' = "none"
    /\ UNCHANGED requests
    /\ session' = NoSession

\* ------------------------------------------------------- recognizer events
SeqsUpTo(S, n) == UNION {[1..k -> S] : k \in 0..n}

FinalCount(results) == Cardinality({i \in 1..Len(results) : results[i].isFinal})

\* The result list after an event that finalizes newFinals and leaves the
\* interim transcript interim: final results are never changed, the
\* results after them are replaced.
NextResults(results, newFinals, interim) ==
    SelectSeq(results, LAMBDA r : r.isFinal)
    \o [k \in 1..Len(newFinals) |-> [transcript |-> newFinals[k], isFinal |-> TRUE]]
    \o (IF interim = <<>> THEN <<>>
        ELSE <<[transcript |-> interim, isFinal |-> FALSE]>>)

\* The loops of onresult over event.results from index from (1-based)
RECURSIVE FinalTranscript(_, _)
FinalTranscript(results, from) ==
    IF from > Len(results) THEN <<>>
    ELSE (IF results[from].isFinal THEN results[from].transcript \o <<SPACE>>
          ELSE <<>>) \o FinalTranscript(results, from + 1)

RECURSIVE InterimTranscript(_, _)
InterimTranscript(results, from) ==
    IF from > Len(results) THEN <<>>
    ELSE (IF results[from].isFinal THEN <<>> ELSE results[from].transcript)
         \o InterimTranscript(results, from + 1)

\* An onresult that loops from the start of event.results.
onresult_multi_fromStart(results, resultIndex) ==
    LET spoken == currentSpokenTextRef \o FinalTranscript(results, 1)
    IN  [currentSpokenTextRef |-> spoken,
         answer |-> textBeforeRecordingRef \o spoken
                    \o InterimTranscript(results, 1)]

\* onresult of the multi page: the refs' and the answer's new values
onresult_multi(results, resultIndex) ==
    LET spoken == currentSpokenTextRef \o FinalTranscript(results, resultIndex)
    IN  [currentSpokenTextRef |-> spoken,
         answer |-> textBeforeRecordingRef \o spoken
                    \o InterimTranscript(results, resultIndex)]

\* onresult of the single page: it reads the whole result list
onresult_single(results) ==
    LET finalTranscript == FinalTranscript(results, 1)
        interimTranscript == InterimTranscript(results, 1)
        spoken == Trim(finalTranscript)
                  \o (IF interimTranscript # <<>>
                      THEN (IF finalTranscript # <<>> THEN <<SPACE>> ELSE <<>>)
                           \o interimTranscript
                      ELSE <<>>)
        sep == IF /\ textBeforeRecordingRef # <<>>
                  /\ ~EndsWithSpace(textBeforeRecordingRef)
                  /\ ~StartsWithSpace(spoken)
               THEN <<SPACE>> ELSE <<>>
    IN  [currentSpokenTextRef |-> spoken,
         answer |-> IF spoken # <<>>
                    THEN textBeforeRecordingRef \o sep \o spoken
                    ELSE textBeforeRecordingRef]

\* The recognizer delivers a result event to the onresult handler (an event
\* without a handler is not observable).  After stop() it returns one last
\* result for the audio captured so far, and then ends.
RecognizerResult(newFinals, interim) ==
    /\ speechRecognitionRef.state \in {"listening", "stopping"}
    /\ speechRecognitionRef.handlers
    /\ newFinals # <<>> \/ interim # <<>>
    /\ speechRecognitionRef.state = "stopping" => Len(newFinals) = 1 /\ interim = <<>>
    /\ LET results == NextResults(speechRecognitionRef.results, newFinals, interim)
           resultIndex == FinalCount(speechRecognitionRef.results) + 1
           new == IF page = "multi" THEN onresult_multi(results, resultIndex)
                  ELSE onresult_single(results)
       IN  /\ speechRecognitionRef' =
                 [speechRecognitionRef EXCEPT
                    !.results = results,
                    !.state = IF @ = "stopping" THEN "ending" ELSE @]
           /\ currentSpokenTextRef' = new.currentSpokenTextRef
           /\ answer' = new.answer
    /\ toast' = "none"
    /\ UNCHANGED <<page, currentStep, generatedQuestion, currentQuestionParams,
                   feedback, isLoadingQuestion, isLoadingFeedback, interviewRounds,
                   stopwatchVars, isRecording, textBeforeRecordingRef, formVars,
                   calls, timers, requests>>
    /\ session' = IF session.live
                   THEN [session EXCEPT !.finals = @ \o newFinals, !.interim = interim]
                   ELSE session

\* The recognizer reports an error; it ends afterwards.
RecognizerError(error) ==
    /\ speechRecognitionRef.state \in {"listening", "stopping"}
    /\ speechRecognitionRef' =
          [speechRecognitionRef EXCEPT !.state = "error", !.results = <<>>]
    /\ IF speechRecognitionRef.handlers
       THEN /\ toast' = "Speech Recognition Error"
            /\ isRecording' = IF capturedIsRecording THEN FALSE ELSE isRecording
       ELSE /\ toast' = "none"
            /\ UNCHANGED isRecording
    /\ UNCHANGED <<page, currentStep, generatedQuestion, currentQuestionParams,
                   answer, feedback, isLoadingQuestion, isLoadingFeedback,
                   interviewRounds, stopwatchVars, transcriptRefs, formVars,
                   calls, timers>>
    /\ UNCHANGED requests
    /\ UNCHANGED session

\* onend of the single page: the answer and textBeforeRecordingRef after it
onend_single ==
    LET sep == IF /\ textBeforeRecordingRef # <<>>
                  /\ ~EndsWithSpace(textBeforeRecordingRef)
                  /\ ~StartsWithSpace(currentSpokenTextRef)
               THEN <<SPACE>> ELSE <<>>
    IN  IF currentSpokenTextRef # <<>>
        THEN textBeforeRecordingRef \o sep \o Trim(currentSpokenTextRef)
        ELSE textBeforeRecordingRef

\* The recognizer ends the session.
RecognizerEnd ==
    /\ speechRecognitionRef.state \in {"listening", "stopping", "ending", "error"}
    /\ speechRecognitionRef' =
          [speechRecognitionRef EXCEPT !.state = "idle", !.results = <<>>]
    /\ IF ~speechRecognitionRef.handlers
       THEN UNCHANGED <<isRecording, answer, transcriptRefs>>
       ELSE IF page = "multi"
       THEN IF capturedIsRecording
            THEN /\ textBeforeRecordingRef' =
                       textBeforeRecordingRef \o currentSpokenTextRef
                 /\ currentSpokenTextRef' = <<>>
                 /\ isRecording' = FALSE
                 /\ UNCHANGED answer
            ELSE UNCHANGED <<isRecording, answer, transcriptRefs>>
       ELSE /\ isRecording' = IF capturedIsRecording THEN FALSE ELSE isRecording
            /\ answer' = onend_single
            /\ textBeforeRecordingRef' = onend_single
            /\ currentSpokenTextRef' = <<>>
    /\ UNCHANGED <<page, currentStep, generatedQuestion, currentQuestionParams,
                   feedback, isLoadingQuestion, isLoadingFeedback, interviewRounds,
                   stopwatchVars, formVars, calls, timers>>
    /\ toast' = "none"
    /\ UNCHANGED requests
    /\ session' = NoSession

\* ------------------------------------------------------- the specification
Next ==
    \/ Tick
    \/ \E values \in FieldValues : FormInput(values)
    \/ handleGenerateQuestion
    \/ handleGetFeedback
    \/ handleStartOver_single
    \/ \E values \in FormInputs : handleGenerateFirstQuestion(values)
    \/ handleNextQuestion
    \/ handleEndInterviewAndGetFeedback
    \/ \E i \in 1..Len(timers) : EndInterviewTimer(i)
    \/ handleStartOver_multi
    \/ \E text \in TypedTexts : Textarea_onChange(text)
    \/ toggleRecording
    \/ \E i \in 1..Len(calls), q \in QuestionsNow :
          generateInterviewQuestion_resolves(i, q)
    \/ \E i \in 1..Len(calls) : generateInterviewQuestion_rejects(i)
    \/ \E i \in 1..Len(calls) : generateFeedback_resolves(i)
    \/ \E i \in 1..Len(calls) : generateFeedback_rejects(i)
    \/ \E newFinals \in SeqsUpTo(Transcripts, MaxFinals - FinalCount(speechRecognitionRef.results)),
          interim \in Interims :
          RecognizerResult(newFinals, interim)
    \/ \E error \in ErrorCodes : RecognizerError(error)
    \/ RecognizerEnd

Spec == Init /\ [][Next]_vars

\* A pending AI call settles (resolves or rejects).
Settle ==
    \/ \E i \in 1..Len(calls), q \in QuestionsNow :
          generateInterviewQuestion_resolves(i, q)
    \/ \E i \in 1..Len(calls) : generateInterviewQuestion_rejects(i)
    \/ \E i \in 1..Len(calls) : generateFeedback_resolves(i)
    \/ \E i \in 1..Len(calls) : generateFeedback_rejects(i)

\* Pending calls settle, and the callback of setTimeout(..., 100) runs.
FairSpec ==
    /\ Spec
    /\ WF_vars(Settle)
    /\ WF_vars(\E i \in 1..Len(timers) : EndInterviewTimer(i))

\* ============================================== the oldest page revision
\* The recognizer instance the speech effect creates: its handlers close over
\* the isRecording of the render the effect belongs to.  (onresult reads
\* event.results only from event.resultIndex on, so nothing of the list is
\* kept between events.)
NewRecognizer(captured) ==
    [state |-> "idle", results |-> <<>>, isRecording |-> captured]

\* speechRecognitionRef of this page: current is speechRecognitionRef.current
\* (Null without the API); started are the instances that are active but no
\* longer referenced, oldest first.
OldestInit ==
    /\ page = "oldest"
    /\ currentStep = "initial"
    /\ generatedQuestion = Null
    /\ currentQuestionParams = Null
    /\ answer = <<>>
    /\ feedback = Null
    /\ isLoadingQuestion = FALSE
    /\ isLoadingFeedback = FALSE
    /\ interviewRounds = <<>>
    /\ elapsedTime = 0
    /\ isStopwatchRunning = FALSE
    /\ stopwatchIntervalRef = "null"
    /\ isRecording = FALSE
    /\ textBeforeRecordingRef = <<>>
    /\ currentSpokenTextRef = <<>>
    /\ \E supported \in BOOLEAN :
          speechRecognitionRef =
              [current |-> IF supported THEN Some(NewRecognizer(FALSE)) ELSE Null,
               started |-> <<>>]
    /\ formValues = DefaultFormValues
    /\ formErrors = {}
    /\ calls = <<>>
    /\ timers = <<>>
    /\ requests = 0
    /\ session = NoSession
    /\ toast = "none"

\* The inputs of this page: a form that fails the schema and one that passes,
\* one finalized transcript.
OldestFieldValues ==
    {[role |-> MinLen - 1, industry |-> MinLen], [role |-> MinLen, industry |-> MinLen]}
OldestTranscripts == {<<"x">>}

\* The variables this revision does not have.
oldestUnused == <<page, currentQuestionParams, interviewRounds, transcriptRefs,
                  timers>>

\* The speech effect (deps [toast, isRecording]) runs again after isRecording
\* changed to captured: it assigns a new instance to speechRecognitionRef.current.
\* The instance it replaces stays active if it was started.
ReplaceRecognizer(ref, captured) ==
    IF ref.current = Null THEN ref
    ELSE [current |-> Some(NewRecognizer(captured)),
          started |-> IF ref.current[1].state = "idle" THEN ref.started
                      ELSE Append(ref.started, ref.current[1])]

\* The cleanup of the effect with deps [isRecording], run with the isRecording
\* of the render it belongs to: it stops speechRecognitionRef.current.
CleanupRecognizer(ref, wasRecording) ==
    IF ref.current # Null /\ wasRecording
    THEN [ref EXCEPT !.current = Some(RecStop(@[1]))] ELSE ref

\* setIsRecording(value) and the re-render it causes when the value changes:
\* the cleanup, then the speech effect.
RecognizerAfter(ref, value) ==
    IF value = isRecording THEN ref
    ELSE ReplaceRecognizer(CleanupRecognizer(ref, isRecording), value)

IntervalAfter(ref, value) ==
    IF value = isRecording THEN ref ELSE CleanupInterval(ref)

FormInput_oldest(values) ==
    /\ page = "oldest"
    /\ currentStep = "initial"
    /\ formValues' = values
    /\ toast' = "none"
    /\ UNCHANGED <<oldestUnused, currentStep, generatedQuestion, answer, feedback,
                   isLoadingQuestion, isLoadingFeedback, stopwatchVars,
                   isRecording, speechRecognitionRef, formErrors, calls,
                   requests, session>>

\* form.handleSubmit(handleGenerateQuestion), up to the await.
handleGenerateQuestion_oldest ==
    /\ requests < MaxOldestCalls
    /\ page = "oldest"
    /\ currentStep = "initial"
    /\ ~SubmitDisabled
    /\ formErrors' = roleIndustrySchema(formValues)
    /\ IF roleIndustrySchema(formValues) # {}
       THEN UNCHANGED <<isLoadingQuestion, generatedQuestion, feedback, answer,
                        calls, requests, session>>
       ELSE /\ isLoadingQuestion' = TRUE
            /\ generatedQuestion' = Null
            /\ feedback' = Null
            /\ answer' = <<>>
            /\ calls' = Append(calls, [kind |-> "question", payload |-> formValues,
                                       step |-> currentStep])
            /\ requests' = requests + 1
            /\ session' = NoSession
    /\ toast' = "none"
    /\ UNCHANGED <<oldestUnused, currentStep, isLoadingFeedback, stopwatchVars,
                   isRecording, speechRecognitionRef, formValues>>

\* Get Feedback, up to the await.
handleGetFeedback_oldest ==
    /\ requests < MaxOldestCalls
    /\ page = "oldest"
    /\ currentStep = "question_generated"
    /\ generatedQuestion # Null
    /\ ~GetFeedbackDisabled
    /\ IF formValues.role = 0 \/ formValues.industry = 0
       THEN UNCHANGED <<isLoadingFeedback, feedback, isStopwatchRunning,
                        stopwatchIntervalRef, calls, requests>>
       ELSE /\ isLoadingFeedback' = TRUE
            /\ feedback' = Null
            /\ stopwatchIntervalRef' = stopStopwatch_ref
            /\ isStopwatchRunning' = FALSE
            /\ calls' = Append(calls,
                  [kind |-> "feedback",
                   payload |-> [question |-> generatedQuestion[1], answer |-> answer,
                                role |-> formValues.role,
                                industry |-> formValues.industry],
                   step |-> currentStep])
            /\ requests' = requests + 1
    /\ toast' = "none"
    /\ UNCHANGED <<oldestUnused, currentStep, generatedQuestion, answer,
                   isLoadingQuestion, elapsedTime, isRecording,
                   speechRecognitionRef, formVars, session>>

\* Start Over / Practice Again.
handleStartOver_oldest ==
    /\ page = "oldest"
    /\ StartOverShown
    /\ formValues' = DefaultFormValues
    /\ formErrors' = {}
    /\ generatedQuestion' = Null
    /\ answer' = <<>>
    /\ feedback' = Null
    /\ currentStep' = "initial"
    /\ elapsedTime' = 0
    /\ stopwatchIntervalRef' = stopStopwatch_ref
    /\ isStopwatchRunning' = FALSE
    /\ IF isRecording /\ speechRecognitionRef.current # Null
       THEN /\ speechRecognitionRef' =
                  RecognizerAfter([speechRecognitionRef EXCEPT
                                     !.current = Some(RecStop(@[1]))], FALSE)
            /\ isRecording' = FALSE
       ELSE UNCHANGED <<speechRecognitionRef, isRecording>>
    /\ toast' = "none"
    /\ session' = NoSession
    /\ UNCHANGED <<oldestUnused, isLoadingQuestion, isLoadingFeedback, calls,
                   requests>>

\* The answer card is rendered: currentStep === "question_generated" && generatedQuestion
AnswerCardShown_oldest ==
    page = "oldest" /\ currentStep = "question_generated" /\ generatedQuestion # Null

\* The textarea's onChange; typing ends the history of the session under way.
Textarea_onChange_oldest(text) ==
    /\ AnswerCardShown_oldest
    /\ answer' = text
    /\ toast' = "none"
    /\ session' = NoSession
    /\ UNCHANGED <<oldestUnused, currentStep, generatedQuestion, feedback,
                   isLoadingQuestion, isLoadingFeedback, stopwatchVars,
                   isRecording, speechRecognitionRef, formVars, calls, requests>>

\* Record with Voice / Stop Recording, with the re-render that follows.
toggleRecording_oldest ==
    /\ AnswerCardShown_oldest
    /\ (~isRecording /\ speechRecognitionRef.current # Null) =>
           Len(speechRecognitionRef.started) < MaxRecognizers
    /\ IF speechRecognitionRef.current = Null
       THEN /\ toast' = "Unsupported Feature"
            /\ UNCHANGED <<speechRecognitionRef, isRecording, stopwatchVars, session>>
       ELSE IF isRecording
       THEN /\ speechRecognitionRef' =
                  RecognizerAfter([speechRecognitionRef EXCEPT
                                     !.current = Some(RecStop(@[1]))], FALSE)
            /\ isRecording' = FALSE
            /\ stopwatchIntervalRef' = IntervalAfter(stopwatchIntervalRef, FALSE)
            /\ toast' = "none"
            /\ UNCHANGED <<elapsedTime, isStopwatchRunning, session>>
       ELSE IF StartThrows(speechRecognitionRef.current[1])
       THEN /\ toast' = "Speech Recognition Error"
            /\ isRecording' = FALSE
            /\ UNCHANGED <<speechRecognitionRef, stopwatchVars, session>>
       ELSE LET start == ~isStopwatchRunning
                ref == IF start THEN startStopwatch_ref ELSE stopwatchIntervalRef
            IN  /\ speechRecognitionRef' =
                      RecognizerAfter([speechRecognitionRef EXCEPT
                                         !.current = Some(RecStart(@[1]))], TRUE)
                /\ isRecording' = TRUE
                /\ elapsedTime' = IF start THEN 0 ELSE elapsedTime
                /\ isStopwatchRunning' = TRUE
                /\ stopwatchIntervalRef' = IntervalAfter(ref, TRUE)
                /\ toast' = "none"
                /\ session' = [live |-> TRUE, startAnswer |-> answer,
                               finals |-> <<>>, interim |-> <<>>]
    /\ UNCHANGED <<oldestUnused, currentStep, generatedQuestion, answer, feedback,
                   isLoadingQuestion, isLoadingFeedback, formVars, calls, requests>>

\* The loop of this revision's onresult over the final results: the
\* transcripts are concatenated as they are.
RECURSIVE FinalTranscript_oldest(_, _)
FinalTranscript_oldest(results, from) ==
    IF from > Len(results) THEN <<>>
    ELSE (IF results[from].isFinal THEN results[from].transcript ELSE <<>>)
         \o FinalTranscript_oldest(results, from + 1)

\* prev.substring(0, n): n below 0 counts as 0
Substring0(s, n) == SubSeq(s, 1, IF n < 0 THEN 0 ELSE n)

\* onresult: the updater passed to setAnswer, applied to prev; results are
\* event.results from event.resultIndex on.
onresult_oldest(prev, results) ==
    LET interimTranscript == InterimTranscript(results, 1)
        finalTranscript == FinalTranscript_oldest(results, 1)
    IN  Substring0(prev, Len(prev) - Len(interimTranscript))
        \o finalTranscript \o interimTranscript

ActiveStates == {"listening", "stopping", "ending", "error"}

\* The started recognizer k delivers a result event.  The session under way
\* is that of the recognizer started last.
RecognizerResult_oldest(k, newFinals, interim) ==
    /\ page = "oldest"
    /\ k \in 1..Len(speechRecognitionRef.started)
    /\ speechRecognitionRef.started[k].state \in {"listening", "stopping"}
    /\ newFinals # <<>> \/ interim # <<>>
    /\ speechRecognitionRef.started[k].state = "stopping" =>
          Len(newFinals) = 1 /\ interim = <<>>
    /\ LET results == NextResults(<<>>, newFinals, interim)
       IN  /\ Len(onresult_oldest(answer, results)) <= MaxAnswerLen
           /\ answer' = onresult_oldest(answer, results)
    /\ speechRecognitionRef' =
          [speechRecognitionRef EXCEPT
             !.started[k].state = IF @ = "stopping" THEN "ending" ELSE @]
    /\ toast' = "none"
    /\ session' = IF session.live /\ k = Len(speechRecognitionRef.started)
                   THEN [session EXCEPT !.finals = @ \o newFinals, !.interim = interim]
                   ELSE NoSession
    /\ UNCHANGED <<oldestUnused, currentStep, generatedQuestion, feedback,
                   isLoadingQuestion, isLoadingFeedback, stopwatchVars,
                   isRecording, formVars, calls, requests>>

\* The started recognizer k reports an error: toast, setIsRecording(false).
RecognizerError_oldest(k, error) ==
    /\ page = "oldest"
    /\ k \in 1..Len(speechRecognitionRef.started)
    /\ speechRecognitionRef.started[k].state \in {"listening", "stopping"}
    /\ speechRecognitionRef' =
          RecognizerAfter([speechRecognitionRef EXCEPT
                             !.started[k].state = "error"], FALSE)
    /\ isRecording' = FALSE
    /\ stopwatchIntervalRef' = IntervalAfter(stopwatchIntervalRef, FALSE)
    /\ toast' = "Speech Recognition Error"
    /\ UNCHANGED <<oldestUnused, currentStep, generatedQuestion, answer, feedback,
                   isLoadingQuestion, isLoadingFeedback, elapsedTime,
                   isStopwatchRunning, formVars, calls, requests, session>>

\* The started recognizer k ends: onend, with the isRecording it closed over.
RecognizerEnd_oldest(k) ==
    /\ page = "oldest"
    /\ k \in 1..Len(speechRecognitionRef.started)
    /\ speechRecognitionRef.started[k].state \in ActiveStates
    /\ LET value == IF speechRecognitionRef.started[k].isRecording
                    THEN FALSE ELSE isRecording
       IN  /\ speechRecognitionRef' =
                 RecognizerAfter([speechRecognitionRef EXCEPT
                                    !.started = RemoveAt(@, k)], value)
           /\ isRecording' = value
           /\ stopwatchIntervalRef' = IntervalAfter(stopwatchIntervalRef, value)
    /\ toast' = "none"
    /\ session' = IF k = Len(speechRecognitionRef.started) THEN NoSession ELSE session
    /\ UNCHANGED <<oldestUnused, currentStep, generatedQuestion, answer, feedback,
                   isLoadingQuestion, isLoadingFeedback, elapsedTime,
                   isStopwatchRunning, formVars, calls, requests>>

OldestNext ==
    \/ Tick
    \/ \E values \in OldestFieldValues : FormInput_oldest(values)
    \/ handleGenerateQuestion_oldest
    \/ handleGetFeedback_oldest
    \/ handleStartOver_oldest
    \/ \E text \in TypedTexts : Textarea_onChange_oldest(text)
    \/ toggleRecording_oldest
    \/ \E i \in 1..Len(calls), q \in QuestionsNow :
          generateInterviewQuestion_resolves(i, q)
    \/ \E i \in 1..Len(calls) : generateInterviewQuestion_rejects(i)
    \/ \E i \in 1..Len(calls) : generateFeedback_resolves(i)
    \/ \E i \in 1..Len(calls) : generateFeedback_rejects(i)
    \/ \E k \in 1..Len(speechRecognitionRef.started),
          newFinals \in SeqsUpTo(OldestTranscripts, MaxFinals), interim \in Interims :
          RecognizerResult_oldest(k, newFinals, interim)
    \/ \E k \in 1..Len(speechRecognitionRef.started), error \in ErrorCodes :
          RecognizerError_oldest(k, error)
    \/ \E k \in 1..Len(speechRecognitionRef.started) : RecognizerEnd_oldest(k)

OldestSpec == OldestInit /\ [][OldestNext]_vars

\* ================================================================ properties

\* C1: at any moment at most one AI call (question or feedback) is in flight.
C1_OneCallInFlight == Len(calls) <= 1

\* C2: while a question call is in flight isLoadingQuestion is true and there
\* is no second question call; while a feedback request is under way (its
\* delayed callback pending or its call in flight) isLoadingFeedback is true
\* and there is no second one.
C2_PerKindGating ==
    /\ Cardinality(CallsOfKind("question")) <= 1
    /\ CallsOfKind("question") # {} => isLoadingQuestion
    /\ Cardinality(CallsOfKind("feedback")) + Len(timers) <= 1
    /\ (CallsOfKind("feedback") # {} \/ timers # <<>>) => isLoadingFeedback

\* Both kinds in flight at once, after Start Over during a feedback call.
C2_BothKindsInFlight ==
    /\ currentStep = "initial"
    /\ CallsOfKind("question") # {}
    /\ CallsOfKind("feedback") # {}

\* C3: in the single page currentStep only moves initial -> question_generated,
\* question_generated -> feedback_generated, or from any step to initial.
C3_StepOrder ==
    [][(page = "single" /\ currentStep' # currentStep) =>
         \/ currentStep = "initial" /\ currentStep' = "question_generated"
         \/ currentStep = "question_generated" /\ currentStep' = "feedback_generated"
         \/ currentStep' = "initial"]_vars

C5_StateAsWhenCalled ==
    [][(page = "single" /\ toast' = "Error: feedback") =>
         \A i \in CallsOfKind("feedback") :
            /\ ~isLoadingFeedback'
            /\ feedback' = Null
            /\ currentStep' = calls[i].step
            /\ generatedQuestion' = Some(calls[i].payload.question)
            /\ answer' = calls[i].payload.answer]_vars

\* C5 (amended): when the single page's feedback call rejects, the error
\* toast is raised, isLoadingFeedback is false, feedback is null, and
\* currentStep, generatedQuestion and answer are as they were just before the
\* rejection; if the answer card is still shown with a non-blank answer, Get
\* Feedback is enabled again.
C5_RejectionLeavesAnswer ==
    [][(page = "single" /\ toast' = "Error: feedback") =>
         /\ CallsOfKind("feedback") # {}
         /\ ~isLoadingFeedback'
         /\ feedback' = Null
         /\ UNCHANGED <<currentStep, generatedQuestion, answer>>
         /\ CallsOfKind("feedback")' = {}
         /\ (AnswerCardShown' /\ Trim(answer') # <<>>) => ~GetFeedbackDisabled']_vars

\* The feedback call has just rejected and Get Feedback can be pressed again.
C5_FeedbackRejected ==
    /\ toast = "Error: feedback"
    /\ page = "single"
    /\ AnswerCardShown
    /\ ~GetFeedbackDisabled

\* C6: in the multi page, whenever isLoadingQuestion is true it eventually is
\* false, and whenever isLoadingFeedback is true it eventually is false,
\* given that pending calls settle and pending callbacks run.
C6_LoadingEventuallyReset ==
    /\ (page = "multi" /\ isLoadingQuestion) ~> ~isLoadingQuestion
    /\ (page = "multi" /\ isLoadingFeedback) ~> ~isLoadingFeedback

\* The delayed callback has just returned through 'No Answers'.
C6_NoAnswersReturn ==
    /\ page = "multi"
    /\ toast = "No Answers"
    /\ ~isLoadingFeedback

\* C7: in the single page every question call carries a role and an industry
\* of 2 to 50 characters, and submitting a form with a field outside that
\* range starts no call and changes nothing of the page's state.
C7_ValidatedSubmission ==
    /\ [](page = "single" =>
            \A i \in CallsOfKind("question") :
               /\ calls[i].payload.role \in MinLen..MaxLen
               /\ calls[i].payload.industry \in MinLen..MaxLen)
    /\ [][(/\ handleGenerateQuestion
           /\ ~(/\ formValues.role \in MinLen..MaxLen
                /\ formValues.industry \in MinLen..MaxLen)) =>
           UNCHANGED <<currentStep, generatedQuestion, answer, feedback,
                       isLoadingQuestion, isLoadingFeedback, stopwatchVars,
                       isRecording, transcriptRefs, speechRecognitionRef,
                       formValues, calls, timers>>]_vars

\* A question call in flight with a 50-character role and a 2-character industry.
C7_BoundaryCall ==
    /\ page = "single"
    /\ \E i \in CallsOfKind("question") :
          calls[i].payload.role = MaxLen /\ calls[i].payload.industry = MinLen

\* The text a recording session has produced so far.
RECURSIVE SpokenText(_)
SpokenText(finals) ==
    IF finals = <<>> THEN <<>>
    ELSE Head(finals) \o <<SPACE>> \o SpokenText(Tail(finals))

\* C8: in the multi page, during a recording session the answer is the text
\* present when the recording started, then every finalized segment in order,
\* each followed by one space, then the current interim transcript.
C8_AnswerIsTranscript ==
    (page = "multi" /\ session.live) =>
        answer = session.startAnswer \o SpokenText(session.finals) \o session.interim

\* Typed text, two different finalized segments and an interim transcript.
C8_TwoFinalsAndInterim ==
    /\ page = "multi"
    /\ session.live
    /\ session.startAnswer = <<"a">>
    /\ Len(session.finals) = 2
    /\ session.finals[1] # session.finals[2]
    /\ session.interim # <<>>

\* C9: when the recognizer fires onend after the user stopped the recording,
\* isRecording is false afterwards.
C9_EndResetsIsRecording ==
    [][(/\ speechRecognitionRef.state \in {"stopping", "ending"}
        /\ speechRecognitionRef'.state = "idle") => ~isRecording']_vars

\* C10: when the recognizer fires onerror during a recording session, the
\* error toast is raised and isRecording is false afterwards.
C10_ErrorResetsIsRecording ==
    [][(/\ isRecording
        /\ speechRecognitionRef.state # "error"
        /\ speechRecognitionRef'.state = "error") =>
           /\ toast' = "Speech Recognition Error"
           /\ ~isRecording']_vars

\* C11: when toggleRecording is invoked without a recognizer, or to start a
\* recording on a recognizer whose start() throws, a toast is raised,
\* isRecording is false afterwards, and answer, elapsedTime and
\* isStopwatchRunning are unchanged.
C11_FailedStart ==
    [][(/\ toggleRecording
        /\ \/ ~speechRecognitionRef.supported
           \/ ~isRecording /\ speechRecognitionRef.state # "idle") =>
           /\ toast' \in {"Unsupported Feature", "Speech Recognition Error"}
           /\ ~isRecording'
           /\ UNCHANGED <<answer, elapsedTime, isStopwatchRunning>>]_vars

\* start() has just thrown on a recognizer that is still stopping, with a
\* typed answer and the stopwatch after its first tick.
C11_StartThrew ==
    /\ toast = "Speech Recognition Error"
    /\ speechRecognitionRef.state = "stopping"
    /\ ~isRecording
    /\ answer = <<"a">>
    /\ elapsedTime = 1

\* C12: in the single page, while a question is shown and the stopwatch has
\* not been stopped by Get Feedback or Start Over, its interval is live, so
\* that every tick increases elapsedTime.
C12_StopwatchKeepsRunning ==
    (/\ page = "single"
     /\ currentStep = "question_generated"
     /\ generatedQuestion # Null
     /\ isStopwatchRunning) => stopwatchIntervalRef = "active"

\* C13: when the delayed callback of End Interview sends the feedback
\* request and a question was active at the click, the rounds sent contain
\* that question paired with the answer present at the click, and every
\* round stored before the click.
C13_PayloadHasActiveQuestion ==
    [][(/\ page = "multi"
        /\ timers # <<>>
        /\ Len(calls') > Len(calls)
        /\ calls'[Len(calls')].kind = "feedback"
        /\ timers[1].generatedQuestion # Null) =>
           LET sent == calls'[Len(calls')].payload.interviewRounds
               t == timers[1]
           IN  /\ \E k \in 1..Len(sent) :
                     sent[k] = [questionText |-> t.generatedQuestion[1],
                                answerText |-> t.answer]
               /\ \A r \in 1..Len(t.interviewRounds) :
                     \E k \in 1..Len(sent) :
                        sent[k].questionText = t.interviewRounds[r].question]_vars

\* C14: a Next Question click with an active question and a non-blank answer
\* appends the round (question, answer) to interviewRounds; with a blank
\* answer it appends the question with an empty answer unless a stored round
\* has the same question; without an active question it appends nothing.
C14_NextAppendsRound ==
    [][(page = "multi" /\ handleNextQuestion) =>
         interviewRounds' =
            IF generatedQuestion = Null THEN interviewRounds
            ELSE IF Trim(answer) # <<>>
            THEN interviewRounds \o <<[question |-> generatedQuestion[1],
                                       answer |-> answer]>>
            ELSE IF \E r \in 1..Len(interviewRounds) :
                       interviewRounds[r].question = generatedQuestion[1]
            THEN interviewRounds
            ELSE interviewRounds \o <<[question |-> generatedQuestion[1],
                                       answer |-> <<>>]>>]_vars

\* C15: in the multi page, whenever currentStep is overall_feedback_generated
\* and feedback is shown, interviewRounds holds as many rounds as the
\* feedback request contained.
C15_RoundsMatchRequest ==
    (/\ page = "multi"
     /\ currentStep = "overall_feedback_generated"
     /\ feedback # Null) => Len(interviewRounds) = feedback[1].roundsSent

\* C16: in the multi page every feedback request contains at least one round
\* with a non-blank answer.
C16_SomeAnswerSent ==
    page = "multi" =>
       \A i \in CallsOfKind("feedback") :
          \E k \in 1..Len(calls[i].payload.interviewRounds) :
             Trim(calls[i].payload.interviewRounds[k].answerText) # <<>>

\* The form is submitted with 'Other' as the only focus and a blank custom focus.
OnlyOtherBlankSubmitted ==
    \E values \in FormInputs :
       /\ values.focusSelections = <<OTHER_VALUE>>
       /\ Trim(values.customFocus) = <<>>
       /\ handleGenerateFirstQuestion(values)

\* C17 (as stated): a submission with 'Other' as the only focus and a blank
\* custom focus raises the Focus Error toast, leaves isLoadingQuestion false
\* and starts no call.
C17_FocusErrorToast ==
    [][OnlyOtherBlankSubmitted =>
         /\ toast' = "Focus Error"
         /\ ~isLoadingQuestion'
         /\ calls' = calls]_vars

\* C17 (amended): in the multi page no question call carries an empty
\* interviewFocus; a submission with 'Other' as the only focus and a blank
\* custom focus is rejected by the form's schema with an issue on
\* customFocus, starts no call and changes no page state; the Focus Error
\* toast is never raised.
C17_FocusValidated ==
    /\ [](page = "multi" =>
            \A i \in CallsOfKind("question") :
               calls[i].payload.interviewFocus # <<>>)
    /\ [](toast # "Focus Error")
    /\ [][OnlyOtherBlankSubmitted =>
           /\ "customFocus" \in formErrors'
           /\ UNCHANGED <<currentStep, generatedQuestion, currentQuestionParams,
                           answer, feedback, isLoadingQuestion, isLoadingFeedback,
                           interviewRounds, stopwatchVars, isRecording,
                           transcriptRefs, speechRecognitionRef, calls,
                           timers>>]_vars

\* The schema has just rejected a submission for its custom focus only.
C17_CustomFocusRejected ==
    /\ page = "multi"
    /\ formErrors = {"customFocus"}
    /\ toast = "none"
    /\ calls = <<>>
    /\ ~isLoadingQuestion

\* C18: in the multi page, whenever currentStep is question_generated,
\* currentQuestionParams is non-null.
C18_ParamsWhileQuestionShown ==
    (page = "multi" /\ currentStep = "question_generated") =>
        currentQuestionParams # Null

\* C19: in the single page the recognizer's handlers stay attached while the
\* component is mounted.
C19_HandlersStayAttached ==
    (page = "single" /\ speechRecognitionRef.supported) =>
        speechRecognitionRef.handlers

\* C20: in the multi page, when a recording session ends (onend), the answer
\* is the text present before the recording followed by the finalized
\* segments of the session, without the last interim transcript.
C20_InterimDiscardedAtEnd ==
    [][(/\ page = "multi"
        /\ session.live
        /\ speechRecognitionRef.state # "idle"
        /\ speechRecognitionRef'.state = "idle") =>
           answer' = session.startAnswer \o SpokenText(session.finals)]_vars

\* C23: in the multi-round page handleStartOver, invoked in any state, leaves
\* the step initial, the question, its parameters and the feedback null, the
\* answer empty, no rounds, the stopwatch at 0 and stopped with no active
\* interval, both transcript refs empty and isRecording false.
C23_StartOverResets ==
    [][handleStartOver_multi =>
          /\ currentStep' = "initial"
          /\ generatedQuestion' = Null
          /\ currentQuestionParams' = Null
          /\ answer' = <<>>
          /\ feedback' = Null
          /\ interviewRounds' = <<>>
          /\ elapsedTime' = 0
          /\ ~isStopwatchRunning'
          /\ stopwatchIntervalRef' # "active"
          /\ textBeforeRecordingRef' = <<>>
          /\ currentSpokenTextRef' = <<>>
          /\ ~isRecording']_vars

\* C23 witness: Start Over was clicked during a recording, with a question
\* call still in flight; the recognizer is stopping and the page is reset.
C23_StartOverWhileRecording ==
    /\ page = "multi"
    /\ currentStep = "initial"
    /\ speechRecognitionRef.state = "stopping"
    /\ ~isRecording
    /\ interviewRounds = <<>>
    /\ answer = <<>>
    /\ stopwatchIntervalRef = "null"
    /\ requests >= 1

\* C24: in the single-question page a step is shown together with the data
\* it renders: question_generated implies a question, feedback_generated
\* implies a feedback and a question.
C24_StepHasItsData ==
    page = "single" =>
        /\ currentStep = "question_generated" => generatedQuestion # Null
        /\ currentStep = "feedback_generated" =>
              feedback # Null /\ generatedQuestion # Null

\* C21: in the oldest page revision the Stop Recording click stops the
\* recognizer that was started: after the click no recognizer is listening.
C21_StopReachesStartedRecognizer ==
    [][(/\ toggleRecording_oldest
        /\ isRecording
        /\ speechRecognitionRef.current # Null) =>
           /\ speechRecognitionRef'.current[1].state # "listening"
           /\ \A k \in 1..Len(speechRecognitionRef'.started) :
                 speechRecognitionRef'.started[k].state # "listening"]_vars

\* The transcripts finalized so far, one after the other.
RECURSIVE JoinTranscripts(_)
JoinTranscripts(finals) ==
    IF finals = <<>> THEN <<>> ELSE Head(finals) \o JoinTranscripts(Tail(finals))

\* C22: in the oldest page revision, after every onresult event of the
\* recording session the answer is the text present before the recording,
\* then the transcripts finalized so far, then the current interim transcript.
C22_ResultKeepsTypedAndFinalText ==
    [][(/\ session.live
        /\ session'.live
        /\ \E k \in 1..Len(speechRecognitionRef.started),
              newFinals \in SeqsUpTo(OldestTranscripts, MaxFinals),
              interim \in Interims :
              RecognizerResult_oldest(k, newFinals, interim)) =>
           answer' = session'.startAnswer \o JoinTranscripts(session'.finals)
                     \o session'.interim]_vars

====
